---- MODULE Spec2Model ----
(***************************************************************************)
(* Model of the geometric scoring / recovery engine of database_gen.py     *)
(* (is_in_contour, create_grid, score_of_node, calculate_score_array,      *)
(* place_inner_vertex, remove_points_grid, compute_vertices) and of the    *)
(* normalisation call of gen_database / procrustes.py.                     *)
(*                                                                         *)
(* Points are pairs <<x, y>> of integers.  The arrays of the program are   *)
(* sequences indexed from 1: the Python index k is the index k + 1 here.   *)
(***************************************************************************)
EXTENDS Integers, Sequences, FiniteSets, TLC

(***************************************************************************)
(* Coordinates are exact and counted in units of 0.005, so that 1.0 is 200 *)
(* and the lattice step Gscale = 0.01 * ls is the integer 2 * ls: the      *)
(* lattice corner -Gscale*nnodes/2 is then an integer for every integer    *)
(* ls.  Rounding of the floating-point sums is not modelled.               *)
(***************************************************************************)
VARIABLES
    pc,             \* position of the modelled call
    coord,          \* the contour: a sequence of points
    qx, qy,         \* the query point of is_in_contour
    result,         \* value returned by is_in_contour ("none" before)
    ls,             \* characteristic edge length
    grid,           \* the grid: a sequence of points
    coord_inner_v,  \* the target points (the mesher's inner vertices)
    scores,         \* the score of each grid point
    out_vertices,   \* the vertices recovered by compute_vertices
    it,             \* number of iterations compute_vertices has completed
    heap,           \* the arrays of gen_database: object identity -> contour
    gen_coord,      \* the array the name coord of gen_database refers to
    pr_coord,       \* the array the name coord of procrustes refers to
    meshed,         \* the contour mesh_contour was given
    written,        \* the contour written to the polygon file
    idx             \* number of polygons gen_database has written

vars == <<pc, coord, qx, qy, result, ls, grid, coord_inner_v, scores, out_vertices, it,
          heap, gen_coord, pr_coord, meshed, written, idx>>
recovery == <<coord_inner_v, scores, out_vertices, it>>
database == <<heap, gen_coord, pr_coord, meshed, written, idx>>

\* the variables of gen_database, when it is not running
NoDatabase ==
    /\ heap = <<>> /\ gen_coord = 0 /\ pr_coord = 0
    /\ meshed = <<>> /\ written = <<>> /\ idx = 0

(***************************************************************************)
(* Bounds of the oracle's inputs                                           *)
(***************************************************************************)
MaxVerts == 4
VertexRange == -1 .. 1
QueryRange == -2 .. 2

LatticePoints == { <<a, b>> : a \in VertexRange, b \in VertexRange }

Range(f) == { f[k] : k \in DOMAIN f }

IsInjective(f) == \A i, k \in DOMAIN f : f[i] = f[k] => i = k

\* every contour of 3 .. MaxVerts distinct lattice vertices (convex or not,
\* simple or not)
Contours ==
    UNION { { f \in [1 .. n -> LatticePoints] : IsInjective(f) } : n \in 3 .. MaxVerts }

(***************************************************************************)
(* is_in_contour (database_gen.py 201-229)                                 *)
(***************************************************************************)
\* lines 221-222 with the last operand taken from vertex j
SlopeWrongVertex(x, y, c, i, j) ==
    (x - c[i][1]) * (c[j][2] - c[i][2]) - (c[j][1] - c[i][1]) * (y - c[j][2])

\* slope of lines 221-222, for the edge from vertex j to vertex i
Slope(x, y, c, i, j) ==
    (x - c[i][1]) * (c[j][2] - c[i][2]) - (c[j][1] - c[i][1]) * (y - c[i][2])

\* line 220 with >= for >
StraddlesInclusive(y, c, i, j) == (c[i][2] >= y) # (c[j][2] >= y)

\* line 220: the edge from vertex j to vertex i has one end above y and one
\* end not above
Straddles(y, c, i, j) == (c[i][2] > y) # (c[j][2] > y)

\* the corner test of lines 217-219, with y compared to the vertex's x
IsCornerTypo(x, y, c, i) == x = c[i][1] /\ y = c[i][1]

\* the corner test of lines 217-219
IsCorner(x, y, c, i) == x = c[i][1] /\ y = c[i][2]

\* the loop of lines 216-228 from index i on, with previous index j and
\* parity c
RECURSIVE InContourLoop(_, _, _, _, _, _)
InContourLoop(x, y, c, i, j, par) ==
    IF i > Len(c) THEN par
    ELSE IF IsCorner(x, y, c, i) THEN TRUE
    ELSE IF Straddles(y, c, i, j)
         THEN IF Slope(x, y, c, i, j) = 0 THEN TRUE
              ELSE InContourLoop(x, y, c, i + 1, i,
                       IF (Slope(x, y, c, i, j) < 0) # (c[j][2] < c[i][2])
                       THEN ~par ELSE par)
         ELSE InContourLoop(x, y, c, i + 1, i, par)

is_in_contour(x, y, c) == InContourLoop(x, y, c, 1, Len(c), FALSE)

(***************************************************************************)
(* Plane geometry used to state the properties of the oracle               *)
(***************************************************************************)
Min(a, b) == IF a <= b THEN a ELSE b
Max(a, b) == IF a >= b THEN a ELSE b
Sign(v) == IF v > 0 THEN 1 ELSE IF v < 0 THEN -1 ELSE 0

\* twice the signed area of the triangle a, b, p
Cross(a, b, p) == (b[1] - a[1]) * (p[2] - a[2]) - (b[2] - a[2]) * (p[1] - a[1])

\* p lies on the closed segment a b
OnSegment(p, a, b) ==
    /\ Cross(a, b, p) = 0
    /\ Min(a[1], b[1]) <= p[1] /\ p[1] <= Max(a[1], b[1])
    /\ Min(a[2], b[2]) <= p[2] /\ p[2] <= Max(a[2], b[2])

Succ(c, k) == IF k = Len(c) THEN 1 ELSE k + 1

\* p lies on edge k of the closed contour c (from vertex k to its successor)
OnEdge(p, c, k) == OnSegment(p, c[k], c[Succ(c, k)])
OnBoundary(p, c) == \E k \in 1 .. Len(c) : OnEdge(p, c, k)

SegmentsMeet(a, b, d, e) ==
    \/ /\ Sign(Cross(a, b, d)) * Sign(Cross(a, b, e)) < 0
       /\ Sign(Cross(d, e, a)) * Sign(Cross(d, e, b)) < 0
    \/ OnSegment(d, a, b) \/ OnSegment(e, a, b)
    \/ OnSegment(a, d, e) \/ OnSegment(b, d, e)

\* a simple polygon: distinct vertices, consecutive edges share their common
\* vertex only, other edges do not meet
Simple(c) ==
    /\ Len(c) >= 3
    /\ IsInjective(c)
    /\ \A k, l \in 1 .. Len(c) :
          k < l =>
            IF Succ(c, k) = l
            THEN ~OnSegment(c[Succ(c, l)], c[k], c[l]) /\ ~OnSegment(c[k], c[l], c[Succ(c, l)])
            ELSE IF Succ(c, l) = k
            THEN ~OnSegment(c[Succ(c, k)], c[l], c[k]) /\ ~OnSegment(c[l], c[k], c[Succ(c, k)])
            ELSE ~SegmentsMeet(c[k], c[Succ(c, k)], c[l], c[Succ(c, l)])

NonCollinear(c) == \E i, j, k \in 1 .. Len(c) : Cross(c[i], c[j], c[k]) # 0

\* quadrant of v seen from p (v # p)
Quadrant(p, v) ==
    LET dx == v[1] - p[1]
        dy == v[2] - p[2]
    IN  IF dx > 0 /\ dy >= 0 THEN 0
        ELSE IF dx <= 0 /\ dy > 0 THEN 1
        ELSE IF dx < 0 /\ dy <= 0 THEN 2
        ELSE 3

\* quarter turns, counted counter-clockwise, that the edge a -> b makes
\* around p (p not on the edge)
QuarterTurns(p, a, b) ==
    LET d == (Quadrant(p, b) - Quadrant(p, a) + 4) % 4
    IN  IF d = 0 THEN 0
        ELSE IF d = 1 THEN 1
        ELSE IF d = 3 THEN -1
        ELSE IF Cross(a, b, p) > 0 THEN 2 ELSE -2

RECURSIVE TurnsFrom(_, _, _)
TurnsFrom(p, c, k) ==
    IF k > Len(c) THEN 0
    ELSE QuarterTurns(p, c[k], c[Succ(c, k)]) + TurnsFrom(p, c, k + 1)

\* p is strictly inside the simple polygon c: the contour winds around it
StrictlyInside(p, c) == TurnsFrom(p, c, 1) # 0

Square == <<(<<-1, -1>>), (<<1, -1>>), (<<1, 1>>), (<<-1, 1>>)>>
Query == <<qx, qy>>

(***************************************************************************)
(* The oracle called on one contour and one query point                    *)
(***************************************************************************)
InitOracle ==
    /\ pc = "call"
    /\ coord \in Contours
    /\ qx \in QueryRange
    /\ qy \in QueryRange
    /\ result = "none"
    /\ ls = 0
    /\ grid = <<>>
    /\ coord_inner_v = <<>> /\ scores = <<>> /\ out_vertices = <<>> /\ it = 0
    /\ NoDatabase

OracleCall ==
    /\ pc = "call"
    /\ result' = is_in_contour(qx, qy, coord)
    /\ pc' = "done"
    /\ UNCHANGED <<coord, qx, qy, ls, grid, recovery, database>>

NextOracle == OracleCall

SpecOracle == InitOracle /\ [][NextOracle]_vars

(***************************************************************************)
(* create_grid (database_gen.py 232-258)                                   *)
(***************************************************************************)
\* Gscale_factor = 0.01 (line 242), in units of 0.005
Gscale_factor == 2
\* the number 1.0
One == 100 * Gscale_factor

\* line 243
GscaleOf(l) == Gscale_factor * l
\* line 244: int(2 / Gscale)
NnodesOf(l) == (2 * One) \div GscaleOf(l)
\* lines 246, 247 and 256: the lower-left corner, in x and in y
CornerOf(l) == -((GscaleOf(l) * NnodesOf(l)) \div 2)

\* line 256 left out: x goes on from the end of the previous row
RowStartNoReset(l, i) == CornerOf(l) + i * NnodesOf(l) * GscaleOf(l)

\* x at the start of row i (lines 246 and 256)
RowStart(l, i) == CornerOf(l)

\* the inner loop of lines 249-253 from column j on
RECURSIVE GridRow(_, _, _, _, _)
GridRow(c, l, x, y, j) ==
    IF j >= NnodesOf(l) THEN <<>>
    ELSE (IF is_in_contour(x, y, c) THEN <<(<<x, y>>)>> ELSE <<>>)
         \o GridRow(c, l, x + GscaleOf(l), y, j + 1)

\* the outer loop of lines 248-257 from row i on
RECURSIVE GridRows(_, _, _, _)
GridRows(c, l, y, i) ==
    IF i >= NnodesOf(l) THEN <<>>
    ELSE GridRow(c, l, RowStart(l, i), y, 0) \o GridRows(c, l, y + GscaleOf(l), i + 1)

create_grid(c, l) == GridRows(c, l, CornerOf(l), 0)

(***************************************************************************)
(* create_grid called on one contour and one ls                            *)
(***************************************************************************)
\* a contour of the oracle's family, scaled so that its lattice is
\* {-1.0, 0.0, 1.0}
Scaled(c) == [k \in DOMAIN c |-> <<One * c[k][1], One * c[k][2]>>]

UnitSquare == Scaled(<<(<<-1, -1>>), (<<1, -1>>), (<<1, 1>>), (<<-1, 1>>)>>)

\* values of ls whose lattices have 8, 4 and 2 nodes a side
LsCoarse == {25, 50, 100}

InitGrid ==
    /\ pc = "call"
    /\ \/ coord \in { Scaled(c) : c \in Contours } /\ ls \in LsCoarse
       \/ coord = UnitSquare /\ ls = 1
    /\ qx = 0
    /\ qy = 0
    /\ result = "none"
    /\ grid = <<>>
    /\ coord_inner_v = <<>> /\ scores = <<>> /\ out_vertices = <<>> /\ it = 0
    /\ NoDatabase

CreateGridCall ==
    /\ pc = "call"
    /\ grid' = create_grid(coord, ls)
    /\ pc' = "done"
    /\ UNCHANGED <<coord, qx, qy, result, ls, recovery, database>>

NextGrid == CreateGridCall

SpecGrid == InitGrid /\ [][NextGrid]_vars

(***************************************************************************)
(* score_of_node, calculate_score_array (database_gen.py 261-292)          *)
(*                                                                         *)
(* A score is a distance in units of 1 / ScoreScale of the coordinate      *)
(* unit, rounded down.                                                     *)
(***************************************************************************)
ScoreScale == 8 * 8

RECURSIVE IsqrtBetween(_, _, _)
IsqrtBetween(n, lo, hi) ==
    IF hi - lo <= 1 THEN lo
    ELSE LET mid == (lo + hi) \div 2
         IN  IF mid * mid <= n THEN IsqrtBetween(n, mid, hi)
             ELSE IsqrtBetween(n, lo, mid)

\* math.sqrt, rounded down
Isqrt(n) == IsqrtBetween(n, 0, 46341)

\* lines 273-274: distance from node to a target
DistTo(node, t) ==
    Isqrt(((node[1] - t[1]) * (node[1] - t[1]) + (node[2] - t[2]) * (node[2] - t[2]))
          * ScoreScale * ScoreScale)

\* min() of a non-empty set of numbers
MinOf(S) == CHOOSE v \in S : \A w \in S : v <= w

\* line 275: min(dist) fails on an empty dist
ScoreRaises(node, nodes) == Len(nodes) = 0

\* lines 270-275
score_of_node(node, nodes) == MinOf({ DistTo(node, nodes[k]) : k \in 1 .. Len(nodes) })

\* lines 287-292: the call fails when a call of score_of_node does
CalculateRaises(g, nodes) == \E i \in 1 .. Len(g) : ScoreRaises(g[i], nodes)

calculate_score_array(g, nodes) == [i \in 1 .. Len(g) |-> score_of_node(g[i], nodes)]

(***************************************************************************)
(* place_inner_vertex (database_gen.py 295-358)                            *)
(*                                                                         *)
(* A label is a Python index plus one: the label 0 is the Python index -1, *)
(* which numpy reads as the last element, and the label Len + 1 is out of  *)
(* range.  A recovered coordinate is kept in units of 1 / VertScale of the *)
(* coordinate unit, rounded down; a division 0/0 of numpy floats gives nan *)
(* and raises nothing.                                                     *)
(***************************************************************************)
VertScale == 4 * 4

Abs(v) == IF v < 0 THEN -v ELSE v

\* line 305: np.argmin, the first index of the minimum
ArgMin(sc) ==
    CHOOSE m \in 1 .. Len(sc) :
        /\ \A k \in 1 .. Len(sc) : sc[m] <= sc[k]
        /\ \A k \in 1 .. m - 1 : sc[m] < sc[k]

\* line 314
LocalGscale(g, m) == Abs(g[m][1] - g[m + 1][1])

\* lines 319-324 for the indices lo .. hi: the labels collected
RECURSIVE LocalLabels(_, _, _, _, _)
LocalLabels(g, cm, G, lo, hi) ==
    IF lo > hi THEN <<>>
    ELSE IF lo = hi
    THEN (IF g[lo][1] = cm[1] /\ 10 * Abs(g[lo][2] - cm[2]) <= 11 * G
          THEN <<lo - 1, lo, lo + 1>> ELSE <<>>)
    ELSE LocalLabels(g, cm, G, lo, (lo + hi) \div 2)
         \o LocalLabels(g, cm, G, (lo + hi) \div 2 + 1, hi)

\* the labels of lines 316-324
CollectedLabels(sc, g) ==
    LocalLabels(g, g[ArgMin(sc)], LocalGscale(g, ArgMin(sc)), 1, Len(g))

\* line 327: del local_domain_label[4]
DelFifth(lab) == SubSeq(lab, 1, 4) \o SubSeq(lab, 6, Len(lab))

\* the labels of lines 316-327 (at least five have been collected)
DomainLabels(sc, g) == DelFifth(CollectedLabels(sc, g))

\* the element a label reads: -1 wraps around to the last one
At(a, k) == IF k = 0 THEN a[Len(a)] ELSE a[k]

xs == <<1, 2, 3, 6, 7, 8>>
ys == <<1, 4, 6, 3, 5, 8>>

\* the exceptions of place_inner_vertex: argmin of an empty array (305),
\* grid[m + 1] past the end (314), fewer than five labels (327), a label
\* past the end (329), fewer than eight labels left (349)
PlaceRaises(sc, g) ==
    \/ Len(sc) = 0
    \/ ArgMin(sc) + 1 > Len(g)
    \/ LET lab == CollectedLabels(sc, g)
       IN  \/ Len(lab) < 5
           \/ \E k \in 1 .. Len(DelFifth(lab)) : DelFifth(lab)[k] > Len(sc)
           \/ Len(DelFifth(lab)) < 8

RECURSIVE SumFrom(_, _)
SumFrom(a, k) == IF k > Len(a) THEN 0 ELSE a[k] + SumFrom(a, k + 1)

\* lines 329-358, when nothing is raised
place_inner_vertex(sc, g) ==
    LET lab == DomainLabels(sc, g)
        local_domain_scores == [k \in 1 .. Len(lab) |-> At(sc, lab[k])]
        xsum == SumFrom([k \in 1 .. Len(xs) |->
                    local_domain_scores[xs[k]] * At(g, lab[xs[k]])[1]], 1)
        ysum == SumFrom([k \in 1 .. Len(ys) |->
                    local_domain_scores[ys[k]] * At(g, lab[ys[k]])[2]], 1)
        xsum_score == SumFrom([k \in 1 .. Len(xs) |-> local_domain_scores[xs[k]]], 1)
        ysum_score == SumFrom([k \in 1 .. Len(ys) |-> local_domain_scores[ys[k]]], 1)
    IN  [ xnan |-> xsum_score = 0,
          ynan |-> ysum_score = 0,
          x |-> IF xsum_score = 0 THEN 0 ELSE (xsum * VertScale) \div xsum_score,
          y |-> IF ysum_score = 0 THEN 0 ELSE (ysum * VertScale) \div ysum_score ]

(***************************************************************************)
(* remove_points_grid (database_gen.py 361-382)                            *)
(***************************************************************************)
\* line 374: radius = 0.1 * ls
RadiusOf(l) == (One \div 10) * l

\* line 378: a comparison with nan is false
TooClose(l, vert, p) ==
    /\ ~vert.xnan /\ ~vert.ynan
    /\ (p[1] * VertScale - vert.x) * (p[1] * VertScale - vert.x)
        + (p[2] * VertScale - vert.y) * (p[2] * VertScale - vert.y)
       < (RadiusOf(l) * VertScale) * (RadiusOf(l) * VertScale)

\* lines 375-379
ToRemove(l, vert, g) == { i \in 1 .. Len(g) : TooClose(l, vert, g[i]) }

\* np.delete on the indices lo .. hi: the elements whose index is not in
\* rem, in their order
RECURSIVE DeleteBetween(_, _, _, _)
DeleteBetween(a, rem, lo, hi) ==
    IF lo > hi THEN <<>>
    ELSE IF lo = hi THEN (IF lo \in rem THEN <<>> ELSE <<a[lo]>>)
    ELSE DeleteBetween(a, rem, lo, (lo + hi) \div 2)
         \o DeleteBetween(a, rem, (lo + hi) \div 2 + 1, hi)

DeleteFrom(a, rem) == DeleteBetween(a, rem, 1, Len(a))

\* line 381 with the indices shifted by one
RemoveScoresShifted(l, vert, g, sc) ==
    DeleteFrom(sc, { Succ(sc, i) : i \in ToRemove(l, vert, g) })

\* line 380
RemoveGrid(l, vert, g) == DeleteFrom(g, ToRemove(l, vert, g))
\* line 381
RemoveScores(l, vert, g, sc) == DeleteFrom(sc, ToRemove(l, vert, g))

(***************************************************************************)
(* main and compute_vertices (database_gen.py 385-406, 435-442)            *)
(***************************************************************************)
MaxTargets == 2
LsFine == {8, 25}

\* a U-shaped contour whose arms and base are one lattice column (row) wide
\* at ls = 8, a small triangle that holds no lattice point, and the square
UShape ==
    <<(<<-206, -206>>), (<<190, -206>>), (<<190, 190>>), (<<178, 190>>),
      (<<178, -194>>), (<<-194, -194>>), (<<-194, 190>>), (<<-206, 190>>)>>
Sliver == <<(<<2, 2>>), (<<12, 2>>), (<<2, 12>>)>>
RecoverContours == {UShape, UnitSquare, Sliver}

\* points the mesher may return: those strictly inside the contour
TargetCandidates ==
    <<(<<187, -198>>), (<<-198, -38>>), (<<-198, 122>>), (<<-8, -198>>), (<<185, 100>>),
      (<<-199, -70>>), (<<0, 0>>), (<<5, 5>>), (<<-150, 30>>), (<<4, 4>>)>>

IsInner(t, c) == ~OnBoundary(t, c) /\ StrictlyInside(t, c)

\* the sequences of at most MaxTargets inner vertices, in the order of
\* TargetCandidates (the scores do not depend on the order of the targets)
TargetSeqs(c) ==
    UNION { { [k \in 1 .. n |-> TargetCandidates[f[k]]] :
                f \in { h \in [1 .. n -> DOMAIN TargetCandidates] :
                          /\ \A k \in 1 .. n - 1 : h[k] < h[k + 1]
                          /\ \A k \in 1 .. n : IsInner(TargetCandidates[h[k]], c) } } :
            n \in 0 .. MaxTargets }

ZeroVertex == [xnan |-> FALSE, ynan |-> FALSE, x |-> 0, y |-> 0]

InitRecover ==
    /\ pc = "main"
    /\ coord \in RecoverContours
    /\ ls \in LsFine
    /\ coord_inner_v \in TargetSeqs(coord)
    /\ qx = 0
    /\ qy = 0
    /\ result = "none"
    /\ grid = <<>>
    /\ scores = <<>>
    /\ out_vertices = <<>>
    /\ it = 0
    /\ NoDatabase

\* main, line 436
MainGrid ==
    /\ pc = "main"
    /\ grid' = create_grid(coord, ls)
    /\ pc' = "score"
    /\ UNCHANGED <<coord, qx, qy, result, ls, coord_inner_v, scores, out_vertices, it, database>>

\* main, lines 438-440, and compute_vertices, line 396
MainScore ==
    /\ pc = "score"
    /\ IF CalculateRaises(grid, coord_inner_v)
       THEN /\ pc' = "error"
            /\ UNCHANGED <<scores, out_vertices>>
       ELSE /\ scores' = calculate_score_array(grid, coord_inner_v)
            /\ out_vertices' = [k \in 1 .. Len(coord_inner_v) |-> ZeroVertex]
            /\ pc' = "loop"
    /\ UNCHANGED <<coord, qx, qy, result, ls, grid, coord_inner_v, it, database>>

\* compute_vertices, lines 398-401: one iteration of the loop
Iterate ==
    /\ pc = "loop"
    /\ it < Len(out_vertices)
    /\ IF PlaceRaises(scores, grid)
       THEN /\ pc' = "error"
            /\ UNCHANGED <<grid, scores, out_vertices, it>>
       ELSE LET vert == place_inner_vertex(scores, grid)
            IN  /\ out_vertices' = [out_vertices EXCEPT ![it + 1] = vert]
                /\ grid' = RemoveGrid(ls, vert, grid)
                /\ scores' = RemoveScores(ls, vert, grid, scores)
                /\ it' = it + 1
                /\ pc' = "loop"
    /\ UNCHANGED <<coord, qx, qy, result, ls, coord_inner_v, database>>

\* compute_vertices, lines 404-406
Return ==
    /\ pc = "loop"
    /\ it = Len(out_vertices)
    /\ pc' = "done"
    /\ UNCHANGED <<coord, qx, qy, result, ls, grid, coord_inner_v, scores, out_vertices, it, database>>

NextRecover == MainGrid \/ MainScore \/ Iterate \/ Return

SpecRecover == InitRecover /\ [][NextRecover]_vars

(***************************************************************************)
(* gen_database (database_gen.py 173-194) and procrustes (procrustes.py    *)
(* 28-52)                                                                  *)
(*                                                                         *)
(* A numpy array is an object of the heap; a name holds the identity of an *)
(* array, and a call binds the parameter to the identity it is given.      *)
(***************************************************************************)
MaxPolygons == 2

\* create_random_contour(4), lines 100-107: vertex i lies in the i-th
\* quarter of the plane, at a distance between 0.7 and 1 of the origin
Offsets == {100, 140}
InRing(v) ==
    /\ v[1] * v[1] + v[2] * v[2] >= ((7 * One) \div 10) * ((7 * One) \div 10)
    /\ v[1] * v[1] + v[2] * v[2] < One * One
Quarter(sx, sy) ==
    { v \in { <<sx * a, sy * b>> : a \in Offsets, b \in Offsets } : InRing(v) }
RandomContours ==
    { <<a, b, c, d>> : a \in Quarter(1, 1), b \in Quarter(-1, 1),
                       c \in Quarter(-1, -1), d \in Quarter(1, -1) }

RECURSIVE SumX(_, _)
SumX(c, k) == IF k > Len(c) THEN 0 ELSE c[k][1] + SumX(c, k + 1)
RECURSIVE SumY(_, _)
SumY(c, k) == IF k > Len(c) THEN 0 ELSE c[k][2] + SumY(c, k + 1)

\* scipy.spatial.procrustes on its second argument, as far as the translation
\* to the centroid (kept integral by the factor Len(c)); its scaling and its
\* rotation act on the same new array
Normalise(c) ==
    [k \in DOMAIN c |-> <<Len(c) * c[k][1] - SumX(c, 1), Len(c) * c[k][2] - SumY(c, 1)>>]

InitDatabase ==
    /\ pc = "create"
    /\ heap = <<>> /\ gen_coord = 0 /\ pr_coord = 0
    /\ meshed = <<>> /\ written = <<>> /\ idx = 0
    /\ coord = <<>> /\ qx = 0 /\ qy = 0 /\ result = "none" /\ ls = 0 /\ grid = <<>>
    /\ coord_inner_v = <<>> /\ scores = <<>> /\ out_vertices = <<>> /\ it = 0

others == <<coord, qx, qy, result, ls, grid, recovery>>

\* gen_database line 179: coord names a new array
CreateRandomContour ==
    /\ pc = "create"
    /\ idx < MaxPolygons
    /\ \E c \in RandomContours : heap' = <<c>>
    /\ gen_coord' = 1
    /\ pc' = "call"
    /\ UNCHANGED <<pr_coord, meshed, written, idx, others>>

\* gen_database line 181, procrustes line 28: the parameter coord is bound
\* to the caller's array
ProcrustesCall ==
    /\ pc = "call"
    /\ pr_coord' = gen_coord
    /\ pc' = "fit"
    /\ UNCHANGED <<heap, gen_coord, meshed, written, idx, others>>

\* procrustes line 47: sp.procrustes works on copies, and the name coord of
\* procrustes is bound to the array it returns
ProcrustesFit ==
    /\ pc = "fit"
    /\ heap' = Append(heap, Normalise(heap[pr_coord]))
    /\ pr_coord' = Len(heap) + 1
    /\ pc' = "return"
    /\ UNCHANGED <<gen_coord, meshed, written, idx, others>>

\* procrustes line 52: nothing is returned, the names of procrustes and the
\* array only they refer to are gone
ProcrustesReturn ==
    /\ pc = "return"
    /\ heap' = SubSeq(heap, 1, 1)
    /\ pr_coord' = 0
    /\ pc' = "mesh"
    /\ UNCHANGED <<gen_coord, meshed, written, idx, others>>

\* gen_database lines 183-184
MeshContour ==
    /\ pc = "mesh"
    /\ meshed' = heap[gen_coord]
    /\ pc' = "write"
    /\ UNCHANGED <<heap, gen_coord, pr_coord, written, idx, others>>

\* gen_database lines 189-194
WritePolygon ==
    /\ pc = "write"
    /\ written' = heap[gen_coord]
    /\ idx' = idx + 1
    /\ pc' = "create"
    /\ UNCHANGED <<heap, gen_coord, pr_coord, meshed, others>>

NextDatabase ==
    \/ CreateRandomContour \/ ProcrustesCall \/ ProcrustesFit
    \/ ProcrustesReturn \/ MeshContour \/ WritePolygon

SpecDatabase == InitDatabase /\ [][NextDatabase]_vars

(***************************************************************************)
(* C1: a query point on an edge of a simple polygon is reported inside.    *)
(* Stated as the claim states it; the code does not satisfy it.            *)
(***************************************************************************)
C1_BoundaryIsInside ==
    (pc = "done" /\ Simple(coord) /\ OnBoundary(Query, coord)) => result = TRUE

(***************************************************************************)
(* C2: for a simple polygon and a query point that is neither a vertex nor *)
(* on an edge, is_in_contour returns TRUE exactly when the point is        *)
(* strictly inside; on the square it gives TRUE for (0,0), FALSE for (2,2) *)
(***************************************************************************)
C2_ParityIsInterior ==
    pc = "done" =>
      /\ (Simple(coord) /\ ~OnBoundary(Query, coord))
            => (result = StrictlyInside(Query, coord))
      /\ (coord = Square /\ Query = <<0, 0>>) => result = TRUE
      /\ (coord = Square /\ Query = <<2, 2>>) => result = FALSE

\* a point strictly inside a simple quadrilateral other than the square has
\* been queried
C2_Witness ==
    /\ pc = "done"
    /\ Len(coord) = 4
    /\ Simple(coord)
    /\ Range(coord) # Range(Square)
    /\ ~OnBoundary(Query, coord)
    /\ StrictlyInside(Query, coord)
    /\ result = TRUE

(***************************************************************************)
(* C3: a query point equal to a vertex of a polygon with at least three    *)
(* non-collinear vertices is reported inside, at whatever index it is.     *)
(***************************************************************************)
C3_VertexIsInside ==
    (pc = "done" /\ Len(coord) >= 3 /\ NonCollinear(coord)
        /\ \E k \in 1 .. Len(coord) : coord[k] = Query)
      => result = TRUE

\* the query is the last vertex, and an edge visited before it straddles
\* the query's y and is counted as a crossing
C3_Witness ==
    /\ pc = "done"
    /\ NonCollinear(coord)
    /\ coord[Len(coord)] = Query
    /\ \E i \in 2 .. Len(coord) - 1 :
          /\ (coord[i][2] > qy) # (coord[i - 1][2] > qy)
          /\ (Slope(qx, qy, coord, i, i - 1) < 0) # (coord[i - 1][2] < coord[i][2])
    /\ result = TRUE

(***************************************************************************)
(* Properties of create_grid                                               *)
(***************************************************************************)
\* the nnodes x nnodes lattice of ls
Lattice(l) ==
    { <<CornerOf(l) + a * GscaleOf(l), CornerOf(l) + b * GscaleOf(l)>> :
        a \in 0 .. NnodesOf(l) - 1, b \in 0 .. NnodesOf(l) - 1 }

\* row-major order: y non-decreasing, x strictly increasing within one y
RowMajor(g) ==
    \A k \in 1 .. Len(g) - 1 :
        \/ g[k][2] < g[k + 1][2]
        \/ g[k][2] = g[k + 1][2] /\ g[k][1] < g[k + 1][1]

(***************************************************************************)
(* C6: create_grid returns exactly the lattice points that is_in_contour   *)
(* accepts, in row-major order; no accepted point gives the empty grid.    *)
(***************************************************************************)
C6_GridIsFilteredLattice ==
    pc = "done" =>
      LET accepted == { p \in Lattice(ls) : is_in_contour(p[1], p[2], coord) }
      IN  /\ Range(grid) = accepted
          /\ RowMajor(grid)
          /\ accepted = {} => grid = <<>>

\* a grid of several rows that keeps some lattice points and drops others
C6_Witness ==
    /\ pc = "done"
    /\ Len(grid) >= 3
    /\ Len(grid) < NnodesOf(ls) * NnodesOf(ls)
    /\ \E k \in 1 .. Len(grid) - 1 : grid[k][2] < grid[k + 1][2]
    /\ \E k \in 1 .. Len(grid) - 1 : grid[k][2] = grid[k + 1][2]

\* (x, y) turned by 90 degrees about the origin
Rot90(p) == <<-p[2], p[1]>>

(***************************************************************************)
(* C8, as claimed: on the square with ls = 1 a lattice point is in the     *)
(* grid if and only if its image under the 90 degree rotation is.          *)
(***************************************************************************)
C8_RotationInvariant ==
    (pc = "done" /\ coord = UnitSquare /\ ls = 1) =>
        LET kept == Range(grid)
        IN  \A p \in Lattice(ls) : (p \in kept) <=> (Rot90(p) \in kept)

(***************************************************************************)
(* C8, amended: on the square with ls = 1 a lattice point whose image      *)
(* under the 90 degree rotation is a lattice point is in the grid if and   *)
(* only if its image is; the points of the row y = -1 are in the grid and  *)
(* their images, on x = 1, are not.                                        *)
(***************************************************************************)
C8_RotationInvariantOnLattice ==
    (pc = "done" /\ coord = UnitSquare /\ ls = 1) =>
        LET kept == Range(grid)
            lattice == Lattice(ls)
        IN  \A p \in lattice :
                /\ Rot90(p) \in lattice => ((p \in kept) <=> (Rot90(p) \in kept))
                /\ p[2] = -One => (p \in kept /\ Rot90(p) \notin kept)

\* the grid of the square with ls = 1 has been built: it holds a point and
\* its image, and a point of the row y = -1 whose image it does not hold
C8_Witness ==
    /\ pc = "done"
    /\ coord = UnitSquare
    /\ ls = 1
    /\ LET kept == Range(grid)
       IN  /\ <<-One, 2 * Gscale_factor>> \in kept
           /\ Rot90(<<-One, 2 * Gscale_factor>>) \in kept
           /\ <<0, -One>> \in kept
           /\ Rot90(<<0, -One>>) \notin kept

(***************************************************************************)
(* Properties of the recovery loop                                         *)
(***************************************************************************)
\* an iteration of the loop of compute_vertices that raised nothing
IterationCompletes == pc = "loop" /\ pc' = "loop" /\ it' = it + 1

(***************************************************************************)
(* C4, as claimed: after an iteration of the recovery loop that does not   *)
(* raise, grid and scores have the same length and both are strictly       *)
(* shorter than before the iteration.  The code does not satisfy it.       *)
(***************************************************************************)
C4_IterationShrinks ==
    [][IterationCompletes =>
         /\ Len(grid') = Len(scores')
         /\ Len(grid') < Len(grid)
         /\ Len(scores') < Len(scores)]_vars

\* the 8 lattice neighbours of the score minimum are in the grid, at the
\* indices next to the minimum and next to the points below and above it
FullNeighbourhood(sc, g, l) ==
    /\ Len(sc) > 0
    /\ LET m == ArgMin(sc)
           G == GscaleOf(l)
           IsAt(k, dx, dy) ==
               /\ k \in 1 .. Len(g)
               /\ g[k] = <<g[m][1] + dx * G, g[m][2] + dy * G>>
       IN  /\ IsAt(m - 1, -1, 0)
           /\ IsAt(m + 1, 1, 0)
           /\ \E a \in 1 .. Len(g) :
                 IsAt(a, 0, -1) /\ IsAt(a - 1, -1, -1) /\ IsAt(a + 1, 1, -1)
           /\ \E b \in 1 .. Len(g) :
                 IsAt(b, 0, 1) /\ IsAt(b - 1, -1, 1) /\ IsAt(b + 1, 1, 1)

(***************************************************************************)
(* C5, as claimed: when the score minimum does not have its 8 lattice      *)
(* neighbours in the grid at the indices the lookup reads,                 *)
(* place_inner_vertex raises.  The code does not satisfy it.               *)
(***************************************************************************)
C5_BadNeighbourhoodRaises ==
    [][(pc = "loop" /\ it < Len(out_vertices) /\ ~FullNeighbourhood(scores, grid, ls))
         => pc' = "error"]_vars

(***************************************************************************)
(* C7, as claimed: calculate_score_array fails whenever the set of target  *)
(* points is empty, whatever the grid.  The code does not satisfy it.      *)
(***************************************************************************)
C7_EmptyTargetsRaise ==
    (coord_inner_v = <<>> /\ pc \notin {"main", "score"}) => pc = "error"

\* squared distance from p to the recovered vertex v below (0.1 * ls)^2
Near(p, v, l) ==
    /\ ~v.xnan /\ ~v.ynan
    /\ (VertScale * p[1] - v.x) * (VertScale * p[1] - v.x)
        + (VertScale * p[2] - v.y) * (VertScale * p[2] - v.y)
       < (VertScale * RadiusOf(l)) * (VertScale * RadiusOf(l))

\* the points of the built grid g0 that are near none of the first n
\* recovered vertices, in the order of g0
Survivors(g0, out, n, l) ==
    SelectSeq(g0, LAMBDA p : \A k \in 1 .. n : ~Near(p, out[k], l))

(***************************************************************************)
(* C10: grid and scores lose the same indices, those of the grid points    *)
(* whose squared distance to a recovered vertex is below (0.1*ls)^2; the   *)
(* other entries keep their order and scores[i] stays the score computed   *)
(* for grid[i], after any number of iterations.                            *)
(***************************************************************************)
C10_LockstepRemoval ==
    pc \in {"loop", "done"} =>
      /\ Len(grid) = Len(scores)
      /\ grid = Survivors(create_grid(coord, ls), out_vertices, it, ls)
      /\ \A i \in 1 .. Len(grid) : scores[i] = score_of_node(grid[i], coord_inner_v)

\* two iterations have each removed a part of the grid
C10_Witness ==
    /\ pc = "loop"
    /\ it = 2
    /\ Len(grid) > 0
    /\ Len(Survivors(create_grid(coord, ls), out_vertices, 1, ls)) > Len(grid)
    /\ Len(create_grid(coord, ls)) > Len(Survivors(create_grid(coord, ls), out_vertices, 1, ls))

(***************************************************************************)
(* C9, as claimed: procrustes(coord) changes the caller's array in place   *)
(* to the normalised contour, so the contour meshed and written after the  *)
(* call is the normalised one.  The code does not satisfy it.              *)
(***************************************************************************)
C9_NormalisedInPlace ==
    [][/\ pc = "fit" => heap'[gen_coord'] = Normalise(heap[gen_coord])
       /\ pc = "mesh" => SumX(meshed', 1) = 0 /\ SumY(meshed', 1) = 0
       /\ pc = "write" => written' = meshed]_vars

====
